---- MODULE Spec2Model ----
(***************************************************************************)
(* A model of synstructure (src/src/lib.rs): match_pattern,                *)
(* match_substructs and each_field over a syn MacroInput.                  *)
(*                                                                         *)
(* Tokens is a sequence of token strings.  An Option is a sequence of      *)
(* length at most one.  A `&mut Field` is modelled by the place it points  *)
(* to: [variant, index] into the MacroInput (variant 0 is the VariantData  *)
(* of a struct body).                                                      *)
(***************************************************************************)
EXTENDS Integers, Sequences, FiniteSets, TLC

MaxVariants == 2
MaxFields == 2

TypeName == "A"
VariantNames == <<"X", "Y", "Z", "W">>
FieldNames == <<"a", "b", "c", "d">>
Prefixes == {"b"}

Some(x) == <<x>>
NoneOpt == <<>>

(* ---------------------------------------------------------------- types *)

BindStyle == {"Move", "MoveMut", "Ref", "RefMut"}

\* Mutant: the two words of `ref mut` appended in the wrong order.
BindStyle_to_tokens_swapped(style) ==
    CASE style = "Move" -> <<>>
      [] style = "MoveMut" -> <<"mut">>
      [] style = "Ref" -> <<"ref">>
      [] style = "RefMut" -> <<"mut", "ref">>

BindStyle_to_tokens(style) ==
    CASE style = "Move" -> <<>>
      [] style = "MoveMut" -> <<"mut">>
      [] style = "Ref" -> <<"ref">>
      [] style = "RefMut" -> <<"ref", "mut">>

BindOpts_new(bind_style) ==
    [bind_style |-> bind_style, prefix |-> "__binding"]

BindOpts_with_prefix(bind_style, prefix) ==
    [bind_style |-> bind_style, prefix |-> prefix]

BindingInfo(ident, field) == [ident |-> ident, field |-> field]

BindingInfo_to_tokens(bi) == <<bi.ident>>

(* ------------------------------------------------- the MacroInput heap *)

VariantDataAt(inp, v) ==
    IF inp.body.kind = "Struct" THEN inp.body.vd ELSE inp.body.variants[v].data

FieldAt(inp, h) == VariantDataAt(inp, h.variant).fields[h.index]

\* Mutant: the handle of a variant's field aliases the first variant's field.
WriteField_first_variant(inp, h, f) ==
    IF inp.body.kind = "Struct"
    THEN [inp EXCEPT !.body.vd.fields[h.index] = f]
    ELSE IF h.index \in DOMAIN inp.body.variants[1].data.fields
    THEN [inp EXCEPT !.body.variants[1].data.fields[h.index] = f]
    ELSE inp

WriteField(inp, h, f) ==
    IF inp.body.kind = "Struct"
    THEN [inp EXCEPT !.body.vd.fields[h.index] = f]
    ELSE [inp EXCEPT !.body.variants[h.variant].data.fields[h.index] = f]

(* ------------------------------------------------------- match_pattern *)

\* Mutant: identifiers numbered from one.
format_ident_one_based(prefix, i) == prefix \o "_" \o ToString(i + 1)

\* Mutant: the positional index left out of the identifier.
format_ident_no_index(prefix, i) == prefix \o "_"

format_ident(prefix, i) == prefix \o "_" \o ToString(i)

Panicked == [panicked |-> TRUE, t |-> <<>>, matches |-> <<>>]

RECURSIVE TupleLoop(_, _, _, _, _, _)
TupleLoop(fields, options, v, i, t, matches) ==
    IF i = Len(fields)
    THEN [panicked |-> FALSE, t |-> Append(t, ")"), matches |-> matches]
    ELSE LET ident == format_ident(options.prefix, i)
         IN  TupleLoop(fields, options, v, i + 1,
                       t \o BindStyle_to_tokens(options.bind_style) \o <<ident, ",">>,
                       Append(matches,
                              BindingInfo(ident, [variant |-> v, index |-> i + 1])))

\* Mutant: a nameless field is rendered without a name instead of unwrap panicking.
RECURSIVE StructLoop_lenient(_, _, _, _, _, _)
StructLoop_lenient(fields, options, v, i, t, matches) ==
    IF i = Len(fields)
    THEN [panicked |-> FALSE, t |-> Append(t, "}"), matches |-> matches]
    ELSE LET ident == format_ident(options.prefix, i)
         IN  StructLoop_lenient(fields, options, v, i + 1,
                        t \o fields[i + 1].ident \o <<":">>
                          \o BindStyle_to_tokens(options.bind_style) \o <<ident, ",">>,
                        Append(matches,
                               BindingInfo(ident, [variant |-> v, index |-> i + 1])))

RECURSIVE StructLoop(_, _, _, _, _, _)
StructLoop(fields, options, v, i, t, matches) ==
    IF i = Len(fields)
    THEN [panicked |-> FALSE, t |-> Append(t, "}"), matches |-> matches]
    ELSE IF fields[i + 1].ident = NoneOpt
    THEN Panicked
    ELSE LET ident == format_ident(options.prefix, i)
             field_name == fields[i + 1].ident[1]
         IN  StructLoop(fields, options, v, i + 1,
                        t \o <<field_name, ":">>
                          \o BindStyle_to_tokens(options.bind_style) \o <<ident, ",">>,
                        Append(matches,
                               BindingInfo(ident, [variant |-> v, index |-> i + 1])))

match_pattern(name, vd, v, options) ==
    CASE vd.shape = "Unit" -> [panicked |-> FALSE, t |-> name, matches |-> <<>>]
      [] vd.shape = "Tuple" ->
            TupleLoop(vd.fields, options, v, 0, Append(name, "("), <<>>)
      [] vd.shape = "Struct" ->
            StructLoop(vd.fields, options, v, 0, Append(name, "{"), <<>>)

(* ---------------------------------------------------------------- state *)

VARIABLES input, options, op, pc, variants, t, k, infos, ct, result, log, input0

vars == <<input, options, op, pc, variants, t, k, infos, ct, result, log, input0>>

(* ----------------------------------------------------------- the inputs *)

Attrs == <<"derive_attr">>

FieldsOf(shape, n) ==
    IF shape = "Struct"
    THEN {[i \in 1..n |-> [ident |-> IF i = nameless THEN NoneOpt ELSE Some(FieldNames[i]),
                           attrs |-> Attrs]] : nameless \in 0..n}
    ELSE {[i \in 1..n |-> [ident |-> NoneOpt, attrs |-> Attrs]]}

VariantDatas ==
    {[shape |-> "Unit", fields |-> <<>>]}
    \cup UNION {{[shape |-> s, fields |-> fs] : fs \in FieldsOf(s, n)} :
                  s \in {"Tuple", "Struct"}, n \in 0..MaxFields}

EnumBodies ==
    UNION {{[kind |-> "Enum",
             variants |-> [j \in 1..m |-> [ident |-> VariantNames[j], data |-> ds[j]]]] :
               ds \in [1..m -> VariantDatas]} : m \in 0..MaxVariants}

StructBodies == {[kind |-> "Struct", vd |-> d] : d \in VariantDatas}

MacroInputs == {[ident |-> TypeName, body |-> b] : b \in EnumBodies \cup StructBodies}

OptionsSet ==
    {BindOpts_new(s) : s \in BindStyle}
    \cup {BindOpts_with_prefix(s, p) : s \in BindStyle, p \in Prefixes}

\* The traversals only hand their options on to match_pattern: they are called
\* with the options of their doc examples, BindStyle::Ref.into().
TraversalOptions == {BindOpts_new("Ref")}

NoResult == <<>>

Init ==
    /\ op \in {"match_pattern", "match_substructs", "each_field"}
    /\ input \in MacroInputs
    /\ op = "match_pattern" => input.body.kind = "Struct"
    /\ options \in (IF op = "match_pattern" THEN OptionsSet ELSE TraversalOptions)
    /\ input0 = input
    /\ pc = "running"
    /\ variants = <<>>
    /\ t = <<>>
    /\ k = 1
    /\ infos = <<>>
    /\ ct = <<>>
    /\ result = NoResult
    /\ log = <<>>

(* -------------------------------------------------------------- helpers *)

Event(ev, v, i, bindings, body) ==
    [ev |-> ev, v |-> v, i |-> i, bindings |-> bindings, body |-> body]

\* The number of substructures match_substructs maps over.
Substructs(inp) ==
    IF inp.body.kind = "Struct" THEN 1 ELSE Len(inp.body.variants)

\* Mutant: the variants are mapped in reverse order.
Pattern_reversed(inp, n, opts) ==
    IF inp.body.kind = "Struct"
    THEN match_pattern(<<inp.ident>>, inp.body.vd, 0, opts)
    ELSE LET r == Len(inp.body.variants) + 1 - n
         IN  match_pattern(<<inp.ident, "::", inp.body.variants[r].ident>>,
                           inp.body.variants[r].data, r, opts)

\* The n-th (1-based) element of the `variants` vector of match_substructs.
Pattern(inp, n, opts) ==
    IF inp.body.kind = "Struct"
    THEN match_pattern(<<inp.ident>>, inp.body.vd, 0, opts)
    ELSE match_pattern(<<inp.ident, "::", inp.body.variants[n].ident>>,
                       inp.body.variants[n].data, n, opts)

\* Mutant: the map is consumed lazily, a branch runs as soon as its pattern exists.
PatternsCollected_lazy(vs, inp) == Len(vs) >= 1 \/ Substructs(inp) = 0

\* `.collect()` / `vec![..]`: the branches loop starts once every pattern is there.
PatternsCollected(vs, inp) == Len(vs) = Substructs(inp)

\* Mutant: the body spliced without its braces.
Arm_unbraced(pat, body) == pat \o <<"=>">> \o body

\* quote!(#pat => { #body })
Arm(pat, body) == pat \o <<"=>", "{">> \o body \o <<"}">>

\* What a callback does to the Field behind a handle it uses: it removes the
\* attributes it has used.
Mutate(f) == [f EXCEPT !.attrs = <<>>]

\* t.append("{"); func(info).to_tokens(&mut t); t.append("}");
Scope(toks, frag) == toks \o <<"{">> \o frag \o <<"}">>

\* Mutant: the closure returns the scopes without the unit terminator.
ClosureResult_no_unit(toks) == toks

\* quote!(()).to_tokens(&mut t); t
ClosureResult(toks) == toks \o <<"(", ")">>

(* -------------------------------------------------------------- actions *)

\* match_pattern(&ast.ident, vd, options), called directly on a struct body.
MatchPattern ==
    /\ op = "match_pattern"
    /\ pc = "running"
    /\ LET r == match_pattern(<<input.ident>>, input.body.vd, 0, options)
       IN  IF r.panicked
           THEN /\ pc' = "panicked"
                /\ UNCHANGED result
           ELSE /\ pc' = "done"
                /\ result' = <<r.t, r.matches>>
    /\ log' = Append(log, Event("pattern", 0, 0, <<>>, <<>>))
    /\ UNCHANGED <<input, options, op, variants, t, k, infos, ct, input0>>

\* One step of the map over the variants (or the single vec! element).
CollectPattern ==
    /\ op \in {"match_substructs", "each_field"}
    /\ pc = "running"
    /\ Len(variants) < Substructs(input)
    /\ LET n == Len(variants) + 1
           r == Pattern(input, n, options)
       IN  /\ IF r.panicked
              THEN /\ pc' = "panicked"
                   /\ UNCHANGED variants
              ELSE /\ pc' = pc
                   /\ variants' = Append(variants, [pat |-> r.t, bindings |-> r.matches])
           /\ log' = Append(log, Event("pattern", n, 0, <<>>, <<>>))
    /\ UNCHANGED <<input, options, op, t, k, infos, ct, result, input0>>

\* One iteration of the branches loop of match_substructs with a caller's func:
\* func either ignores the bindings, or uses one and mutates its Field.
CallFunc ==
    /\ op = "match_substructs"
    /\ pc = "running"
    /\ PatternsCollected(variants, input)
    /\ k <= Len(variants)
    /\ LET pat == variants[k].pat
           bindings == variants[k].bindings
       IN  \E pick \in 0..Len(bindings) :
             LET body == IF pick = 0 THEN <<"\"some_random_string\"">>
                         ELSE BindingInfo_to_tokens(bindings[pick])
             IN  /\ input' = IF pick = 0 THEN input
                              ELSE WriteField(input, bindings[pick].field,
                                              Mutate(FieldAt(input, bindings[pick].field)))
                 /\ t' = t \o Arm(pat, body)
                 /\ log' = log \o <<Event("call", k, 0, bindings, <<>>),
                                     Event("ret", k, 0, <<>>, body)>>
    /\ k' = k + 1
    /\ UNCHANGED <<options, op, pc, variants, infos, ct, result, input0>>

\* each_field: match_substructs calls the closure with the bindings of variant k.
EnterClosure ==
    /\ op = "each_field"
    /\ pc = "running"
    /\ PatternsCollected(variants, input)
    /\ k <= Len(variants)
    /\ pc' = "closure"
    /\ infos' = variants[k].bindings
    /\ ct' = <<>>
    /\ log' = Append(log, Event("call", k, 0, variants[k].bindings, <<>>))
    /\ UNCHANGED <<input, options, op, variants, t, k, result, input0>>

\* each_field: one iteration of `for info in infos`, calling the caller's func.
FieldFunc ==
    /\ pc = "closure"
    /\ infos # <<>>
    /\ LET info == Head(infos)
           i == Len(variants[k].bindings) - Len(infos) + 1
       IN  \E use \in BOOLEAN :
             LET frag == IF use THEN <<"use", "(">> \o BindingInfo_to_tokens(info) \o <<")", ";">>
                         ELSE <<"skip", ";">>
             IN  /\ input' = IF use
                              THEN WriteField(input, info.field,
                                              Mutate(FieldAt(input, info.field)))
                              ELSE input
                 /\ ct' = Scope(ct, frag)
                 /\ log' = Append(log, Event("field", k, i, <<info>>, frag))
    /\ infos' = Tail(infos)
    /\ UNCHANGED <<options, op, pc, variants, t, k, result, input0>>

\* each_field: the closure appends `()` and returns; match_substructs renders the arm.
LeaveClosure ==
    /\ pc = "closure"
    /\ infos = <<>>
    /\ LET body == ClosureResult(ct)
       IN  /\ t' = t \o Arm(variants[k].pat, body)
           /\ log' = Append(log, Event("ret", k, 0, <<>>, body))
    /\ pc' = "running"
    /\ k' = k + 1
    /\ ct' = <<>>
    /\ UNCHANGED <<input, options, op, variants, infos, result, input0>>

\* match_substructs returns t.
Return ==
    /\ op \in {"match_substructs", "each_field"}
    /\ pc = "running"
    /\ PatternsCollected(variants, input)
    /\ k > Len(variants)
    /\ pc' = "done"
    /\ result' = <<t>>
    /\ UNCHANGED <<input, options, op, variants, t, k, infos, ct, log, input0>>

Next ==
    \/ MatchPattern
    \/ CollectPattern
    \/ CallFunc
    \/ EnterClosure
    \/ FieldFunc
    \/ LeaveClosure
    \/ Return

Spec == Init /\ [][Next]_vars

(* ------------------------------------------ what the properties talk about *)

Digits == <<"0", "1", "2", "3", "4", "5", "6", "7", "8", "9">>

StyleWords ==
    [Move |-> <<>>, MoveMut |-> <<"mut">>, Ref |-> <<"ref">>, RefMut |-> <<"ref", "mut">>]

\* The name token match_substructs hands to match_pattern for substructure n.
NameTokens(n) ==
    IF input0.body.kind = "Struct" THEN <<input0.ident>>
    ELSE <<input0.ident, "::", input0.body.variants[n].ident>>

HandleVariant(n) == IF input0.body.kind = "Struct" THEN 0 ELSE n

\* Every (pattern, bindings) pair a match_pattern call has returned so far is
\* PatternResult(n) for an n of PatternIds: n = 0 is the direct call, n >= 1
\* the call for substructure n of a traversal.
PatternIds ==
    IF op = "match_pattern"
    THEN (IF pc = "done" THEN {0} ELSE {})
    ELSE 1..Len(variants)

PatternResult(n) ==
    IF n = 0
    THEN [name |-> <<input0.ident>>, vd |-> input0.body.vd, v |-> 0,
          t |-> result[1], matches |-> result[2]]
    ELSE [name |-> NameTokens(n), vd |-> VariantDataAt(input0, n), v |-> HandleVariant(n),
          t |-> variants[n].pat, matches |-> variants[n].bindings]

Malformed(vd) ==
    vd.shape = "Struct" /\ \E i \in 1..Len(vd.fields) : vd.fields[i].ident = NoneOpt

\* The substructures a call walks: the struct body, or each variant.
Walked == IF input0.body.kind = "Struct" THEN {0} ELSE 1..Len(input0.body.variants)

(* ------------------------------------------------------------ properties *)

\* C1: match_pattern returns exactly one BindingInfo per field of the shape
\* (none for Unit), the i-th carrying the identifier prefix_i and a handle to
\* the i-th field in declaration order.
C1_OneBindingPerField ==
    \A n \in PatternIds :
      LET r == PatternResult(n)
      IN
        /\ Len(r.matches) = Len(r.vd.fields)
        /\ r.vd.shape = "Unit" => r.matches = <<>>
        /\ \A i \in 1..Len(r.matches) :
              /\ r.matches[i].ident = options.prefix \o "_" \o Digits[i]
              /\ r.matches[i].field = [variant |-> r.v, index |-> i]

C1_Witness ==
    /\ op = "match_pattern"
    /\ pc = "done"
    /\ input0.body.vd.shape = "Tuple"
    /\ Len(result[2]) >= 2

\* C2: the pattern is the name token followed by nothing (Unit), by
\* ( <style> prefix_i , ... ) (Tuple) or by { name_i : <style> prefix_i , ... }
\* (Named), and the field name in slot i is the name of the field the i-th
\* BindingInfo's handle refers to.
C2_PatternShape ==
    \A id \in PatternIds :
        LET r == PatternResult(id)
            nl == Len(r.name)
            n == Len(r.vd.fields)
            sw == StyleWords[options.bind_style]
            s == Len(sw)
            w == IF r.vd.shape = "Struct" THEN s + 4 ELSE s + 2
            off == IF r.vd.shape = "Struct" THEN 2 ELSE 0
            base(i) == nl + 1 + (i - 1) * w
        IN  /\ SubSeq(r.t, 1, nl) = r.name
            /\ r.vd.shape = "Unit" => r.t = r.name
            /\ r.vd.shape # "Unit" =>
                  /\ Len(r.t) = nl + 2 + n * w
                  /\ r.t[nl + 1] = (IF r.vd.shape = "Tuple" THEN "(" ELSE "{")
                  /\ r.t[Len(r.t)] = (IF r.vd.shape = "Tuple" THEN ")" ELSE "}")
                  /\ \A i \in 1..n :
                        /\ r.vd.shape = "Struct" =>
                              /\ Some(r.t[base(i) + 1]) = r.vd.fields[i].ident
                              /\ Some(r.t[base(i) + 1])
                                    = FieldAt(input0, r.matches[i].field).ident
                              /\ r.t[base(i) + 2] = ":"
                        /\ SubSeq(r.t, base(i) + off + 1, base(i) + off + s) = sw
                        /\ r.t[base(i) + off + s + 1] = options.prefix \o "_" \o Digits[i]
                        /\ r.t[base(i) + off + s + 2] = ","

C2_Witness ==
    /\ op = "match_pattern"
    /\ pc = "done"
    /\ input0.body.vd.shape = "Struct"
    /\ Len(result[2]) >= 2
    /\ options.bind_style = "RefMut"

\* C8: a Named shape with a nameless field makes the call abort: no pattern is
\* ever produced for such a variant, the call never completes, and the abort
\* returns nothing and ends the call.
C8_FailFast ==
    /\ \A n \in PatternIds : ~Malformed(PatternResult(n).vd)
    /\ pc = "done" => \A v \in Walked : ~Malformed(VariantDataAt(input0, v))
    /\ pc = "panicked" =>
          /\ result = NoResult
          /\ \E v \in Walked : Malformed(VariantDataAt(input0, v))
          /\ ~ENABLED Next

C8_Witness ==
    /\ pc = "panicked"
    /\ op = "match_pattern"
    /\ Len(input0.body.vd.fields) >= 2

\* C9 as stated: no two BindingInfo records produced by one call carry the
\* same identifier.
C9_UniqueInTraversal ==
    \A n1, n2 \in PatternIds :
        LET m1 == PatternResult(n1).matches
            m2 == PatternResult(n2).matches
        IN  \A i1 \in 1..Len(m1), i2 \in 1..Len(m2) :
                m1[i1].ident = m2[i2].ident => (n1 = n2 /\ i1 = i2)

\* C9 amended: the BindingInfo records of one variant (one match_pattern
\* call) carry pairwise distinct identifiers.
C9_UniqueWithinVariant ==
    \A n \in PatternIds :
        LET m == PatternResult(n).matches
        IN  \A i1, i2 \in 1..Len(m) : m[i1].ident = m[i2].ident => i1 = i2

C9_Witness ==
    /\ op = "each_field"
    /\ \E n \in 1..Len(variants) : Len(variants[n].bindings) >= 2

(* ------------------------------------------------- the traversal's history *)

Calls == SelectSeq(log, LAMBDA e : e.ev = "call")
Rets == SelectSeq(log, LAMBDA e : e.ev = "ret")
FieldEvents(j) == SelectSeq(log, LAMBDA e : e.ev = "field" /\ e.v = j)

Traversal == op \in {"match_substructs", "each_field"}

\* K: the declared variants of an enum, the one substructure of a struct.
DeclaredVariants ==
    IF input0.body.kind = "Struct" THEN 1 ELSE Len(input0.body.variants)

Suffix(j) == SubSeq(variants[j].pat, Len(NameTokens(j)) + 1, Len(variants[j].pat))

RECURSIVE ExpectedArms(_, _)
ExpectedArms(rets, j) ==
    IF j = 0 THEN <<>>
    ELSE ExpectedArms(rets, j - 1) \o NameTokens(j) \o Suffix(j)
           \o <<"=>", "{">> \o rets[j].body \o <<"}">>

RECURSIVE ArmEnd(_, _)
ArmEnd(rets, j) ==
    IF j = 0 THEN 0
    ELSE ArmEnd(rets, j - 1) + Len(variants[j].pat) + 3 + Len(rets[j].body)

RECURSIVE ExpectedScopes(_, _)
ExpectedScopes(fe, i) ==
    IF i = 0 THEN <<>>
    ELSE ExpectedScopes(fe, i - 1) \o <<"{">> \o fe[i].body \o <<"}">>

\* C3: match_substructs on an enum with K variants produces exactly K arms
\* in declaration order, the j-th being TypeName :: VariantName_j <suffix>
\* => { body_j }; on a struct, exactly one arm starting with the bare type name.
C3_OneArmPerVariant ==
    Traversal =>
      LET rets == Rets
      IN
        /\ t = ExpectedArms(rets, Len(rets))
        /\ Cardinality({p \in DOMAIN t : t[p] = "=>"}) = Len(rets)
        /\ pc = "done" =>
              /\ result = <<t>>
              /\ Len(rets) = DeclaredVariants
              /\ input0.body.kind = "Struct" =>
                    /\ t[1] = input0.ident
                    /\ t[2] # "::"

C3_Witness ==
    /\ op = "match_substructs"
    /\ pc = "done"
    /\ input0.body.kind = "Enum"
    /\ Len(input0.body.variants) >= 2
    /\ input0.body.variants[1].data.shape = "Tuple"
    /\ input0.body.variants[2].data.shape = "Struct"

\* C4: the per-variant callback is invoked exactly once per variant in
\* declaration order, on the BindingInfo sequence match_pattern produced for
\* that variant, and its result is the body of that variant's arm.
C4_CallbackPerVariant ==
    Traversal =>
      LET calls == Calls
          rets == Rets
      IN
        /\ Len(rets) <= Len(calls)
        /\ Len(calls) <= Len(rets) + 1
        /\ Len(calls) <= DeclaredVariants
        /\ pc = "done" => Len(rets) = DeclaredVariants
        /\ \A c \in 1..Len(calls) :
              LET b == calls[c].bindings
              IN  /\ calls[c].v = c
                  /\ b = variants[c].bindings
                  /\ Len(b) = Len(VariantDataAt(input0, c).fields)
                  /\ \A i \in 1..Len(b) :
                        b[i].field = [variant |-> HandleVariant(c), index |-> i]
        /\ \A c \in 1..Len(rets) :
              LET b == rets[c].body
                  e == ArmEnd(rets, c)
              IN  /\ rets[c].v = c
                  /\ SubSeq(t, e - Len(b) - 2, e)
                        = <<"=>", "{">> \o b \o <<"}">>

C4_Witness ==
    /\ op = "match_substructs"
    /\ pc = "done"
    /\ Len(Calls) >= 2
    /\ Len(Calls[1].bindings) >= 1
    /\ Len(Calls[2].bindings) >= 2

\* C5 as stated: the callback for variant j has returned before pattern
\* synthesis for variant j+1 begins.
C5_VariantByVariant ==
    \A p \in DOMAIN log :
        (log[p].ev = "pattern" /\ log[p].v >= 2) =>
            \E q \in 1..(p - 1) : log[q].ev = "ret" /\ log[q].v = log[p].v - 1

\* C5 amended: match_substructs synthesises the patterns of all variants, in
\* declaration order, before it invokes the callback for any variant; it
\* then completes the callback and the arm of variant j before invoking the
\* callback for variant j+1.
C5_PatternsThenCallbacks ==
    Traversal =>
        /\ \A p \in 1..Len(log) :
              log[p].ev = "pattern" =>
                  /\ log[p].v = p
                  /\ p > 1 => log[p - 1].ev = "pattern"
        /\ (\E q \in 1..Len(log) : log[q].ev # "pattern") =>
              /\ Len(variants) = DeclaredVariants
              /\ \A j \in 1..DeclaredVariants : log[j].ev = "pattern"
        /\ \A q \in 1..Len(log) :
              (log[q].ev = "call" /\ log[q].v >= 2) =>
                  /\ log[q - 1].ev = "ret"
                  /\ log[q - 1].v = log[q].v - 1

C5_Witness ==
    /\ op = "each_field"
    /\ \E q \in DOMAIN log : log[q].ev = "call" /\ log[q].v = 2

\* C7: the arm body each_field produces for a variant is one braced scope
\* { fragment_i } per field, in declaration order, fragment_i being the
\* result of the one call of the per-field callback on the i-th BindingInfo,
\* followed by (); with zero fields it is exactly () and the callback is
\* not called.
C7_EachFieldBody ==
    op = "each_field" =>
      LET calls == Calls
          rets == Rets
      IN
        /\ \A j \in 1..Len(calls) :
              LET fe == FieldEvents(j)
              IN  /\ Len(fe) <= Len(variants[j].bindings)
                  /\ \A i \in 1..Len(fe) :
                        /\ fe[i].i = i
                        /\ fe[i].bindings = <<variants[j].bindings[i]>>
        /\ \A j \in (Len(calls) + 1)..Len(variants) : FieldEvents(j) = <<>>
        /\ \A j \in 1..Len(rets) :
              LET n == Len(VariantDataAt(input0, j).fields)
                  fe == FieldEvents(j)
              IN  /\ Len(fe) = n
                  /\ rets[j].body = ExpectedScopes(fe, n) \o <<"(", ")">>
                  /\ n = 0 => rets[j].body = <<"(", ")">>

C7_Witness ==
    /\ op = "each_field"
    /\ pc = "done"
    /\ Len(Rets) >= 2
    /\ Len(variants[1].bindings) = 0
    /\ Len(variants[2].bindings) >= 2

\* C10: when a traversal aborts on a nameless Named field, at whatever
\* position, no callback has been invoked and the MacroInput is as on entry.
C10_AbortBeforeAnyCallback ==
    (Traversal /\ pc = "panicked") =>
        /\ input = input0
        /\ \A p \in DOMAIN log : log[p].ev = "pattern"

C10_Witness ==
    /\ op = "match_substructs"
    /\ pc = "panicked"
    /\ Len(variants) >= 1
    /\ Len(variants[1].bindings) >= 1

\* The binding a callback step used, if any: the one whose Field it mutated.
UsedBindings(e, bs) ==
    IF e.ev = "field"
    THEN IF e.body[1] = "use" THEN {e.bindings[1]} ELSE {}
    ELSE {bs[i] : i \in {i \in 1..Len(bs) : <<bs[i].ident>> = e.body}}

\* C6: a mutation a callback makes through a handle of variant j's
\* BindingInfo is in the MacroInput at that field of variant j at once, and a
\* callback for variant j changes nothing but fields of variant j: the type
\* name, variant names, shapes, field counts and all other variants stay.
C6_HandlesWriteThrough ==
    [][ /\ input'.ident = input.ident
        /\ input'.body.kind = input.body.kind
        /\ input.body.kind = "Struct" =>
              /\ input'.body.vd.shape = input.body.vd.shape
              /\ Len(input'.body.vd.fields) = Len(input.body.vd.fields)
        /\ input.body.kind = "Enum" =>
              /\ Len(input'.body.variants) = Len(input.body.variants)
              /\ \A j \in 1..Len(input.body.variants) :
                    LET old == input.body.variants[j]
                        new == input'.body.variants[j]
                    IN  /\ new.ident = old.ident
                        /\ new.data.shape = old.data.shape
                        /\ Len(new.data.fields) = Len(old.data.fields)
                        /\ j # k => new = old
        /\ input' # input => (Len(log') > Len(log) /\ log'[Len(log')].v = k)
        /\ (Len(log') > Len(log) /\ log'[Len(log')].ev \in {"field", "ret"}) =>
              LET used == UsedBindings(log'[Len(log')], variants[k].bindings)
              IN  /\ \A b \in used :
                        /\ b.field.variant = HandleVariant(k)
                        /\ FieldAt(input', b.field).attrs = <<>>
                        /\ FieldAt(input', b.field).ident = FieldAt(input, b.field).ident
                  /\ \A v \in Walked :
                        \A i \in 1..Len(VariantDataAt(input, v).fields) :
                          LET h == [variant |-> v, index |-> i]
                          IN  (\A b \in used : b.field # h) =>
                                  FieldAt(input', h) = FieldAt(input, h)
      ]_vars

C6_Witness ==
    /\ op = "match_substructs"
    /\ input0.body.kind = "Enum"
    /\ Len(input0.body.variants) >= 2
    /\ Len(input0.body.variants[1].data.fields) >= 1
    /\ input.body.variants[1] = input0.body.variants[1]
    /\ input.body.variants[2] # input0.body.variants[2]

====
